---- MODULE Spec2Model ----
(***************************************************************************)
(* Model of the PRIORITY frame codec (src/frame/priority.rs), the agent    *)
(* profile table and header extraction (src/profile.rs) and the            *)
(* thread-local client type slot (src/impersonate.rs).                     *)
(*                                                                         *)
(* Integers: TLC evaluates over 32-bit signed integers, so a Rust u32 is   *)
(* kept as the pair (bit 31, bits 0..30): [top : BOOLEAN, low : 0..2^31-1].*)
(* A byte is a number in 0..255, a buffer is a sequence of bytes.          *)
(***************************************************************************)
EXTENDS Integers, Sequences, FiniteSets, TLC

VARIABLES
    in_stream_id,   \* codec: the StreamId handed to Priority::new / Head
    in_dependency,  \* codec: the (id, weight, exclusive) handed to StreamDependency::new
    payload,        \* codec: the raw payload slice handed to load
    dependency,     \* codec: the StreamDependency value in hand
    priority,       \* codec: the Priority value in hand (or the panic marker)
    dst,            \* codec: the output buffer (a Vec<u8>), append only
    mark,           \* codec: length of dst before the last encode call
    result,         \* codec: the Result returned by the last load call
    last,           \* name of the last operation that ran
    profile,        \* profile: the AgentProfile in hand
    token,          \* profile: the string last handed to AgentProfile::from
    header,         \* profile: the (name, value) pair last returned by to_header
    header_of,      \* profile: the profile to_header was called on
    order,          \* profile: the [PseudoType; 4] last returned by into()
    headers,        \* headers: the HeaderMap handed to AgentProfile::from(&mut HeaderMap)
    headers_before, \* headers: the map as it was when the extraction was called
    T,              \* thread-local: the slot of each thread
    pc,             \* thread-local: where each thread is (idle / in set / in get)
    arg,            \* thread-local: argument of the running set_thread_local
    ret,            \* thread-local: value returned by the last get_thread_local
    last_set,       \* thread-local: history, the last value each thread stored
    last_call       \* thread-local: the call each thread completed last

codecVars   == <<in_stream_id, in_dependency, payload, dependency, priority, dst, mark, result>>
profileVars == <<profile, token, header, header_of, order>>
headerVars  == <<headers, headers_before>>
threadVars  == <<T, pc, arg, ret, last_set, last_call>>
vars == <<codecVars, profileVars, headerVars, threadVars, last>>

(***************************************************************************)
(* Bounds                                                                  *)
(***************************************************************************)
MaxSmallId    == 3    \* stream ids 0..MaxSmallId are sampled, besides the large ones
MaxPayloadLen == 6    \* raw payload slices of length 0..MaxPayloadLen
MaxDst        == 19   \* the output buffer holds at most this many bytes
MaxHeaders    == 3    \* header values appended to a HeaderMap
NumThreads    == 2    \* threads using the thread-local slot

(***************************************************************************)
(* Values                                                                  *)
(***************************************************************************)
NoValue == [tag |-> "None"]
Panic   == [tag |-> "Panic"]

Some(v) == [tag |-> "Some", value |-> v]

Ok(v)  == [tag |-> "Ok", value |-> v]
Err(e) == [tag |-> "Err", error |-> e]

\* the largest 31-bit value, 2^31 - 1
StreamIdMax == 127 * 16777216 + 16777215

\* stream ids the model draws: small ones, one with four distinct bytes, the maximum
StreamIds == (0 .. MaxSmallId) \cup {16909060, StreamIdMax}

Weights == {0, 201, 255}

\* the byte values drawn for position i of a raw payload
PosBytes(i) ==
    CASE i = 1 -> {0, 1, 127, 128, 129, 255}
      [] i = 2 -> {0, 2, 255}
      [] i = 3 -> {0, 3, 255}
      [] i = 4 -> {0, 1, 2, 3, 4, 255}
      [] i = 5 -> {0, 201}
      [] OTHER -> {7}

RECURSIVE PayloadsOfLen(_)
PayloadsOfLen(n) ==
    IF n = 0 THEN {<<>>}
    ELSE {Append(p, b) : p \in PayloadsOfLen(n - 1), b \in PosBytes(n)}

Payloads == UNION {PayloadsOfLen(n) : n \in 0 .. MaxPayloadLen}

IsByte(b) == b \in 0 .. 255

(***************************************************************************)
(* StreamId, Head (crate::frame; not among the sources, taken from the     *)
(* specification sections 4.1 and 6)                                       *)
(***************************************************************************)
HEADER_LEN == 9

Kind_Priority == 2

\* unpack_octets_4!: four big-endian bytes to a u32
unpack_octets_4(buf) ==
    [top |-> buf[1] >= 128,
     low |-> (buf[1] % 128) * 16777216 + buf[2] * 65536 + buf[3] * 256 + buf[4]]

\* StreamId::parse(buf) -> (StreamId, bool): bits 1-31 are the id, the MSB the flag
StreamId_parse(buf) ==
    LET unpacked == unpack_octets_4(buf)
    IN  <<unpacked.low, unpacked.top>>

\* StreamId::zero()
StreamId_zero == 0

\* From<StreamId> for u32
StreamId_into_u32(id) == [top |-> FALSE, low |-> id]

\* BufMut::put_u32: append a u32 big-endian
put_u32(buf, n) ==
    buf \o << (n.low \div 16777216) + (IF n.top THEN 128 ELSE 0),
              (n.low \div 65536) % 256,
              (n.low \div 256) % 256,
              n.low % 256 >>

\* BufMut::put_u8
put_u8(buf, b) == Append(buf, b)

\* BufMut::put_uint(n, 3): append the low 24 bits big-endian
put_uint_3(buf, n) ==
    buf \o << (n \div 65536) % 256, (n \div 256) % 256, n % 256 >>

\* Head::new(kind, flag, stream_id)
Head_new(kind, flag, stream_id) ==
    [kind |-> kind, flag |-> flag, stream_id |-> stream_id]

\* Head::encode(payload_len, dst): length (24 bit), type, flags, stream id
Head_encode(head, payload_len, buf) ==
    put_u32(put_u8(put_u8(put_uint_3(buf, payload_len), head.kind), head.flag),
            StreamId_into_u32(head.stream_id))

(***************************************************************************)
(* StreamDependency (src/frame/priority.rs)                                *)
(***************************************************************************)
\* StreamDependency::new
StreamDependency_new(dependency_id, weight, is_exclusive) ==
    [dependency_id |-> dependency_id, weight |-> weight, is_exclusive |-> is_exclusive]

\* a load that accepts any slice of at least 5 bytes
StreamDependency_load_atleast(src) ==
    IF Len(src) < 5 THEN Err("InvalidPayloadLength")
    ELSE LET parsed == StreamId_parse(SubSeq(src, 1, 4))
         IN  Ok(StreamDependency_new(parsed[1], src[5], parsed[2]))

\* StreamDependency::load
StreamDependency_load(src) ==
    IF Len(src) # 5 THEN Err("InvalidPayloadLength")
    ELSE LET parsed == StreamId_parse(SubSeq(src, 1, 4))
             weight == src[5]
         IN  Ok(StreamDependency_new(parsed[1], weight, parsed[2]))

\* an encode that never sets the exclusive bit
StreamDependency_encode_noflag(self, buf) ==
    put_u8(put_u32(buf, StreamId_into_u32(self.dependency_id)), self.weight)

\* StreamDependency::encode
StreamDependency_encode(self, buf) ==
    LET dependency_id == StreamId_into_u32(self.dependency_id)
        masked == IF self.is_exclusive
                  THEN [dependency_id EXCEPT !.top = TRUE]   \* |= STREAM_ID_MASK
                  ELSE dependency_id
    IN  put_u8(put_u32(buf, masked), self.weight)

(***************************************************************************)
(* Priority (src/frame/priority.rs)                                        *)
(***************************************************************************)
\* a constructor that asserts stream_id != 0
Priority_new_assert(stream_id, dep) ==
    IF stream_id = 0 THEN Panic
    ELSE [stream_id |-> stream_id, dependency |-> dep]

\* Priority::new: no check on either argument
Priority_new(stream_id, dep) ==
    [stream_id |-> stream_id, dependency |-> dep]

\* a load without the self-dependency check
Priority_load_nocheck(head, src) ==
    LET d == StreamDependency_load(src)
    IN  IF d.tag = "Err" THEN d
        ELSE Ok([stream_id |-> head.stream_id, dependency |-> d.value])

\* Priority::load
Priority_load(head, src) ==
    LET d == StreamDependency_load(src)
    IN  IF d.tag = "Err" THEN d                                  \* the ? operator
        ELSE IF d.value.dependency_id = head.stream_id
             THEN Err("InvalidDependencyId")
             ELSE Ok([stream_id |-> head.stream_id, dependency |-> d.value])

\* Priority::head
Priority_head(self) == Head_new(Kind_Priority, 0, self.stream_id)

\* an encode that writes the payload before the header
Priority_encode_swapped(self, buf) ==
    Head_encode(Priority_head(self), 5, StreamDependency_encode(self.dependency, buf))

\* Priority::encode
Priority_encode(self, buf) ==
    StreamDependency_encode(self.dependency, Head_encode(Priority_head(self), 5, buf))

(***************************************************************************)
(* AgentProfile (src/profile.rs)                                           *)
(***************************************************************************)
X_CLIENT_PROFILE == "x-client-profile"

AgentProfiles == {"Chrome", "Firefox", "Safari", "Edge", "OkHttp"}

\* strings handed to From<&str>: the five tokens, the empty string, other spellings
Tokens == {"chrome", "firefox", "safari", "edge", "okhttp",
           "", "Chrome", "FIREFOX", "Safari", "EDGE", "OkHttp", "okhttp ", "bogus"}

\* AgentProfile::to_header
AgentProfile_to_header(self) ==
    << X_CLIENT_PROFILE,
       CASE self = "Chrome"  -> "chrome"
         [] self = "Firefox" -> "firefox"
         [] self = "Safari"  -> "safari"
         [] self = "Edge"    -> "edge"
         [] self = "OkHttp"  -> "okhttp" >>

\* Default for AgentProfile
AgentProfile_default == "Chrome"

\* a parser without the "edge" arm
AgentProfile_from_str_noedge(s) ==
    CASE s = "chrome"  -> "Chrome"
      [] s = "firefox" -> "Firefox"
      [] s = "safari"  -> "Safari"
      [] s = "okhttp"  -> "OkHttp"
      [] OTHER         -> "Chrome"

\* From<&str> for AgentProfile
AgentProfile_from_str(s) ==
    CASE s = "chrome"  -> "Chrome"
      [] s = "firefox" -> "Firefox"
      [] s = "safari"  -> "Safari"
      [] s = "edge"    -> "Edge"
      [] s = "okhttp"  -> "OkHttp"
      [] OTHER         -> "Chrome"

\* a table in which Firefox has Safari's ordering
AgentProfile_into_pseudo_firefox_as_safari(self) ==
    CASE self \in {"Chrome", "Edge"} -> <<"Method", "Authority", "Scheme", "Path">>
      [] self = "OkHttp"             -> <<"Method", "Path", "Authority", "Scheme">>
      [] self \in {"Safari", "Firefox"} -> <<"Method", "Scheme", "Path", "Authority">>

\* Into<[PseudoType; 4]> for AgentProfile
AgentProfile_into_pseudo(self) ==
    CASE self \in {"Chrome", "Edge"} -> <<"Method", "Authority", "Scheme", "Path">>
      [] self = "OkHttp"             -> <<"Method", "Path", "Authority", "Scheme">>
      [] self = "Safari"             -> <<"Method", "Scheme", "Path", "Authority">>
      [] self = "Firefox"            -> <<"Method", "Path", "Authority", "Scheme">>

(***************************************************************************)
(* http::HeaderMap as src/profile.rs uses it.  A map is a sequence of      *)
(* entries in insertion order of their names, each entry a name and the    *)
(* non-empty sequence of its values.                                       *)
(***************************************************************************)
HeaderNames == {X_CLIENT_PROFILE, "accept", "cookie"}

\* a header value whose bytes are not visible ASCII
OpaqueValue == "safari<0xFF>"

HeaderValues == {"safari", "bogus", OpaqueValue}

\* HeaderValue::to_str().ok()
HeaderValue_to_str(v) == IF v = OpaqueValue THEN NoValue ELSE [tag |-> "Some", value |-> v]

\* HeaderMap::new
HeaderMap_new == <<>>

HeaderMap_find(map, name) == {i \in 1 .. Len(map) : map[i].name = name}

\* HeaderMap::get: the first value of the name
HeaderMap_get(map, name) ==
    IF HeaderMap_find(map, name) = {} THEN NoValue
    ELSE LET i == CHOOSE j \in HeaderMap_find(map, name) : TRUE
         IN  [tag |-> "Some", value |-> map[i].values[1]]

\* HeaderMap::append: adds the value to the values of the name
HeaderMap_append(map, name, value) ==
    IF HeaderMap_find(map, name) = {}
    THEN Append(map, [name |-> name, values |-> <<value>>])
    ELSE [i \in 1 .. Len(map) |->
            IF map[i].name = name
            THEN [map[i] EXCEPT !.values = Append(@, value)]
            ELSE map[i]]

\* HeaderMap::insert: replaces all values of the name
HeaderMap_insert(map, name, value) ==
    IF HeaderMap_find(map, name) = {}
    THEN Append(map, [name |-> name, values |-> <<value>>])
    ELSE [i \in 1 .. Len(map) |->
            IF map[i].name = name
            THEN [map[i] EXCEPT !.values = <<value>>]
            ELSE map[i]]

\* HeaderMap::iter: every (name, value), entries in order, values of a name together
RECURSIVE HeaderMap_iter(_)
HeaderMap_iter(map) ==
    IF map = <<>> THEN <<>>
    ELSE [k \in 1 .. Len(map[1].values) |-> <<map[1].name, map[1].values[k]>>]
         \o HeaderMap_iter(Tail(map))

\* HeaderMap::len: the number of values
HeaderMap_len(map) == Len(HeaderMap_iter(map))

\* the loop of From<&mut HeaderMap>: insert every pair but x-client-profile
RECURSIVE rebuild(_, _)
rebuild(pairs, new_headers) ==
    IF pairs = <<>> THEN new_headers
    ELSE rebuild(Tail(pairs),
                 IF pairs[1][1] # X_CLIENT_PROFILE
                 THEN HeaderMap_insert(new_headers, pairs[1][1], pairs[1][2])
                 ELSE new_headers)

\* From<&mut HeaderMap> for AgentProfile: the profile and the map left behind
AgentProfile_from_headers(map) ==
    LET v == HeaderMap_get(map, X_CLIENT_PROFILE)
        s == IF v.tag = "Some" THEN HeaderValue_to_str(v.value) ELSE NoValue
        p == IF s.tag = "Some" THEN AgentProfile_from_str(s.value) ELSE "Chrome"
    IN  [profile |-> p, headers |-> rebuild(HeaderMap_iter(map), HeaderMap_new)]

(***************************************************************************)
(* ClientType thread-local slot (src/impersonate.rs)                       *)
(***************************************************************************)
Threads == 1 .. NumThreads

ClientTypes == {"Chrome", "OkHttp"}

\* a slot that is one static shared by all threads
slot_set_shared(slots, t, client_type) == [u \in DOMAIN slots |-> Some(client_type)]

\* *v.borrow_mut() = Some(client_type) on the slot of thread t
slot_set(slots, t, client_type) == [slots EXCEPT ![t] = Some(client_type)]

\* a read that takes the value out of the slot
slot_take(slots, t) == [value |-> slots[t], slots |-> [slots EXCEPT ![t] = NoValue]]

\* var.borrow().clone() on the slot of thread t: the value and the slots afterwards
slot_get(slots, t) == [value |-> slots[t], slots |-> slots]

(***************************************************************************)
(* Initial values of the parts a specification does not use                *)
(***************************************************************************)
CodecIdle ==
    /\ in_stream_id = 0
    /\ in_dependency = NoValue
    /\ payload = <<>>
    /\ dependency = NoValue
    /\ priority = NoValue
    /\ dst = <<>>
    /\ mark = 0
    /\ result = NoValue

ProfileIdle ==
    /\ profile = AgentProfile_default
    /\ token = NoValue
    /\ header = NoValue
    /\ header_of = NoValue
    /\ order = NoValue

HeadersIdle ==
    /\ headers = HeaderMap_new
    /\ headers_before = NoValue

ThreadsIdle ==
    /\ T = [t \in Threads |-> NoValue]        \* RefCell::new(None)
    /\ pc = [t \in Threads |-> "idle"]
    /\ arg = [t \in Threads |-> NoValue]
    /\ ret = [t \in Threads |-> NoValue]
    /\ last_set = [t \in Threads |-> NoValue]
    /\ last_call = [t \in Threads |-> "none"]

(***************************************************************************)
(* Decoding raw payloads: the head and the payload are the inputs          *)
(***************************************************************************)
InitLoad ==
    /\ in_stream_id \in StreamIds
    /\ payload \in Payloads
    /\ in_dependency = NoValue
    /\ dependency = NoValue
    /\ priority = NoValue
    /\ dst = <<>>
    /\ mark = 0
    /\ result = NoValue
    /\ last = "init"
    /\ ProfileIdle /\ HeadersIdle /\ ThreadsIdle

\* StreamDependency::load(payload)
Call_StreamDependency_load ==
    /\ result' = StreamDependency_load(payload)
    /\ last' = "StreamDependency::load"
    /\ UNCHANGED <<in_stream_id, in_dependency, payload, dependency, priority, dst, mark>>
    /\ UNCHANGED <<profileVars, headerVars, threadVars>>

\* Priority::load(head, payload), head a PRIORITY head of the input stream id
Call_Priority_load ==
    /\ result' = Priority_load(Head_new(Kind_Priority, 0, in_stream_id), payload)
    /\ last' = "Priority::load"
    /\ UNCHANGED <<in_stream_id, in_dependency, payload, dependency, priority, dst, mark>>
    /\ UNCHANGED <<profileVars, headerVars, threadVars>>

NextLoad == Call_StreamDependency_load \/ Call_Priority_load

SpecLoad == InitLoad /\ [][NextLoad]_vars

(***************************************************************************)
(* Building, encoding and decoding back: the stream id and the dependency  *)
(* fields are the inputs                                                   *)
(***************************************************************************)
InitCodec ==
    /\ in_stream_id \in StreamIds
    /\ in_dependency \in {<<id, w, e>> : id \in StreamIds, w \in Weights, e \in BOOLEAN}
    /\ payload = <<>>
    /\ dependency = NoValue
    /\ priority = NoValue
    /\ dst = <<>>
    /\ mark = 0
    /\ result = NoValue
    /\ last = "init"
    /\ ProfileIdle /\ HeadersIdle /\ ThreadsIdle

IsPriority(p) == p # NoValue /\ p # Panic

\* StreamDependency::new(id, weight, exclusive)
Call_StreamDependency_new ==
    /\ dependency' = StreamDependency_new(in_dependency[1], in_dependency[2], in_dependency[3])
    /\ last' = "StreamDependency::new"
    /\ UNCHANGED <<in_stream_id, in_dependency, payload, priority, dst, mark, result>>
    /\ UNCHANGED <<profileVars, headerVars, threadVars>>

\* dependency.encode(&mut dst)
Call_StreamDependency_encode ==
    /\ dependency # NoValue
    /\ Len(dst) + 5 <= MaxDst
    /\ mark' = Len(dst)
    /\ dst' = StreamDependency_encode(dependency, dst)
    /\ last' = "StreamDependency::encode"
    /\ UNCHANGED <<in_stream_id, in_dependency, payload, dependency, priority, result>>
    /\ UNCHANGED <<profileVars, headerVars, threadVars>>

\* StreamDependency::load(&dst[mark..]): the bytes the last encode wrote
Call_StreamDependency_load_dst ==
    /\ Len(dst) > mark
    /\ result' = StreamDependency_load(SubSeq(dst, mark + 1, Len(dst)))
    /\ last' = "StreamDependency::load"
    /\ UNCHANGED <<in_stream_id, in_dependency, payload, dependency, priority, dst, mark>>
    /\ UNCHANGED <<profileVars, headerVars, threadVars>>

\* Priority::new(stream_id, dependency)
Call_Priority_new ==
    /\ dependency # NoValue
    /\ priority' = Priority_new(in_stream_id, dependency)
    /\ last' = "Priority::new"
    /\ UNCHANGED <<in_stream_id, in_dependency, payload, dependency, dst, mark, result>>
    /\ UNCHANGED <<profileVars, headerVars, threadVars>>

\* priority.encode(&mut dst)
Call_Priority_encode ==
    /\ priority # NoValue /\ priority # Panic
    /\ Len(dst) + HEADER_LEN + 5 <= MaxDst
    /\ mark' = Len(dst)
    /\ dst' = Priority_encode(priority, dst)
    /\ last' = "Priority::encode"
    /\ UNCHANGED <<in_stream_id, in_dependency, payload, dependency, priority, result>>
    /\ UNCHANGED <<profileVars, headerVars, threadVars>>

\* Priority::load(priority.head(), &dst[mark + HEADER_LEN..])
Call_Priority_load_dst ==
    /\ priority # NoValue /\ priority # Panic
    /\ Len(dst) - mark >= HEADER_LEN
    /\ result' = Priority_load(Priority_head(priority),
                               SubSeq(dst, mark + HEADER_LEN + 1, Len(dst)))
    /\ last' = "Priority::load"
    /\ UNCHANGED <<in_stream_id, in_dependency, payload, dependency, priority, dst, mark>>
    /\ UNCHANGED <<profileVars, headerVars, threadVars>>

NextCodec ==
    \/ Call_StreamDependency_new
    \/ Call_StreamDependency_encode
    \/ Call_StreamDependency_load_dst
    \/ Call_Priority_new
    \/ Call_Priority_encode
    \/ Call_Priority_load_dst

SpecCodec == InitCodec /\ [][NextCodec]_vars

(***************************************************************************)
(* Agent profiles: parsing tokens, rendering the header, the pseudo order  *)
(***************************************************************************)
InitProfile ==
    /\ CodecIdle /\ ProfileIdle /\ HeadersIdle /\ ThreadsIdle
    /\ last = "init"

\* AgentProfile::from(s)
Call_from_str(s) ==
    /\ profile' = AgentProfile_from_str(s)
    /\ token' = Some(s)
    /\ last' = "AgentProfile::from(str)"
    /\ UNCHANGED <<header, header_of, order>>
    /\ UNCHANGED <<codecVars, headerVars, threadVars>>

\* profile.to_header()
Call_to_header ==
    /\ header' = AgentProfile_to_header(profile)
    /\ header_of' = profile
    /\ last' = "AgentProfile::to_header"
    /\ UNCHANGED <<profile, token, order>>
    /\ UNCHANGED <<codecVars, headerVars, threadVars>>

\* AgentProfile::from(header.1): parse back the value to_header returned
Call_from_header ==
    /\ header # NoValue
    /\ profile' = AgentProfile_from_str(header[2])
    /\ token' = Some(header[2])
    /\ last' = "AgentProfile::from(header)"
    /\ UNCHANGED <<header, header_of, order>>
    /\ UNCHANGED <<codecVars, headerVars, threadVars>>

\* profile.into(): the pseudo-header ordering
Call_into_pseudo ==
    /\ order' = [of |-> profile, value |-> AgentProfile_into_pseudo(profile)]
    /\ last' = "AgentProfile::into"
    /\ UNCHANGED <<profile, token, header, header_of>>
    /\ UNCHANGED <<codecVars, headerVars, threadVars>>

NextProfile ==
    \/ \E s \in Tokens : Call_from_str(s)
    \/ Call_to_header
    \/ Call_from_header
    \/ Call_into_pseudo

SpecProfile == InitProfile /\ [][NextProfile]_vars

(***************************************************************************)
(* Extraction of the profile from a header map                             *)
(***************************************************************************)
InitHeaders ==
    /\ CodecIdle /\ ProfileIdle /\ HeadersIdle /\ ThreadsIdle
    /\ last = "init"

\* headers.append(name, value)
Call_HeaderMap_append(name, value) ==
    /\ HeaderMap_len(headers) < MaxHeaders
    /\ headers' = HeaderMap_append(headers, name, value)
    /\ headers_before' = NoValue
    /\ last' = "HeaderMap::append"
    /\ UNCHANGED <<codecVars, profileVars, threadVars>>

\* headers.insert(name, value)
Call_HeaderMap_insert(name, value) ==
    /\ HeaderMap_len(headers) < MaxHeaders
    /\ headers' = HeaderMap_insert(headers, name, value)
    /\ headers_before' = NoValue
    /\ last' = "HeaderMap::insert"
    /\ UNCHANGED <<codecVars, profileVars, threadVars>>

\* AgentProfile::from(&mut headers)
Call_from_headers ==
    /\ LET r == AgentProfile_from_headers(headers)
       IN  /\ profile' = r.profile
           /\ headers' = r.headers
    /\ headers_before' = headers
    /\ last' = "AgentProfile::from(headers)"
    /\ UNCHANGED <<token, header, header_of, order>>
    /\ UNCHANGED <<codecVars, threadVars>>

NextHeaders ==
    \/ \E name \in HeaderNames, value \in HeaderValues : Call_HeaderMap_append(name, value)
    \/ \E name \in HeaderNames, value \in HeaderValues : Call_HeaderMap_insert(name, value)
    \/ Call_from_headers

SpecHeaders == InitHeaders /\ [][NextHeaders]_vars

(***************************************************************************)
(* Threads calling set_thread_local and get_thread_local.  A call is two   *)
(* steps, entering the function and running the closure on the slot, so    *)
(* calls of different threads overlap.                                     *)
(***************************************************************************)
InitThread ==
    /\ CodecIdle /\ ProfileIdle /\ HeadersIdle /\ ThreadsIdle
    /\ last = "init"

\* thread t enters ClientType::set_thread_local(client_type)
Enter_set_thread_local(t, client_type) ==
    /\ pc[t] = "idle"
    /\ pc' = [pc EXCEPT ![t] = "set"]
    /\ arg' = [arg EXCEPT ![t] = client_type]
    /\ last' = "enter set_thread_local"
    /\ UNCHANGED <<T, ret, last_set, last_call>>
    /\ UNCHANGED <<codecVars, profileVars, headerVars>>

\* thread t runs Self::T.with(|v| *v.borrow_mut() = Some(client_type))
Run_set_thread_local(t) ==
    /\ pc[t] = "set"
    /\ T' = slot_set(T, t, arg[t])
    /\ last_set' = [last_set EXCEPT ![t] = Some(arg[t])]
    /\ last_call' = [last_call EXCEPT ![t] = "set"]
    /\ pc' = [pc EXCEPT ![t] = "idle"]
    /\ arg' = [arg EXCEPT ![t] = NoValue]
    /\ last' = "set_thread_local"
    /\ UNCHANGED ret
    /\ UNCHANGED <<codecVars, profileVars, headerVars>>

\* thread t enters ClientType::get_thread_local()
Enter_get_thread_local(t) ==
    /\ pc[t] = "idle"
    /\ pc' = [pc EXCEPT ![t] = "get"]
    /\ last' = "enter get_thread_local"
    /\ UNCHANGED <<T, arg, ret, last_set, last_call>>
    /\ UNCHANGED <<codecVars, profileVars, headerVars>>

\* thread t runs Self::T.with(|var| var.borrow().clone())
Run_get_thread_local(t) ==
    /\ pc[t] = "get"
    /\ LET r == slot_get(T, t)
       IN  /\ ret' = [ret EXCEPT ![t] = r.value]
           /\ T' = r.slots
    /\ last_call' = [last_call EXCEPT ![t] = "get"]
    /\ pc' = [pc EXCEPT ![t] = "idle"]
    /\ last' = "get_thread_local"
    /\ UNCHANGED <<arg, last_set>>
    /\ UNCHANGED <<codecVars, profileVars, headerVars>>

NextThread ==
    \/ \E t \in Threads, c \in ClientTypes : Enter_set_thread_local(t, c)
    \/ \E t \in Threads : Run_set_thread_local(t)
    \/ \E t \in Threads : Enter_get_thread_local(t)
    \/ \E t \in Threads : Run_get_thread_local(t)

SpecThread == InitThread /\ [][NextThread]_vars

(***************************************************************************)
(* Properties                                                              *)
(***************************************************************************)
\* the dependency id carried by the first four bytes of a slice: its low 31 bits
Low31(b) == (b[1] % 128) * 16777216 + b[2] * 65536 + b[3] * 256 + b[4]

\* C1: Priority::load of a 5-byte payload whose low 31 bits of the first four
\* bytes equal the stream id of the head returns Err(InvalidDependencyId),
\* whatever the top bit and the weight byte, for every stream id.
C1_SelfDependencyRejected ==
    (last = "Priority::load" /\ Len(payload) = 5 /\ Low31(payload) = in_stream_id)
        => result = Err("InvalidDependencyId")

\* C1 happens: the maximum stream id, exclusive bit set, rejected
C1_Witness ==
    /\ last = "Priority::load"
    /\ Len(payload) = 5
    /\ in_stream_id = StreamIdMax
    /\ Low31(payload) = in_stream_id
    /\ payload[1] >= 128
    /\ result = Err("InvalidDependencyId")

\* C2: StreamDependency::load of a slice whose length is not 5 returns
\* Err(InvalidPayloadLength), and Priority::load of such a payload returns the
\* same error for every head, also when the first four bytes name the head's
\* own stream.
C2_LengthRejected ==
    (last \in {"StreamDependency::load", "Priority::load"} /\ Len(payload) # 5)
        => result = Err("InvalidPayloadLength")

\* C2 happens: a 6-byte payload naming the head's own stream, through Priority::load
C2_Witness ==
    /\ last = "Priority::load"
    /\ Len(payload) = 6
    /\ Low31(payload) = in_stream_id
    /\ result = Err("InvalidPayloadLength")

\* the bytes dst holds from position mark + 1 on: what the last encode wrote
Written == SubSeq(dst, mark + 1, Len(dst))

\* five bytes are the wire form of a dependency
IsDependencyWire(b, d) ==
    /\ Len(b) = 5
    /\ \A i \in 1 .. 5 : IsByte(b[i])
    /\ (b[1] >= 128) = d.is_exclusive
    /\ Low31(b) = d.dependency_id
    /\ b[5] = d.weight

\* C3: StreamDependency::encode writes exactly 5 bytes, a big-endian word
\* whose top bit is is_exclusive and whose low 31 bits are dependency_id, then
\* the weight byte; StreamDependency::load of those bytes returns Ok of the
\* value that was encoded.
C3_DependencyRoundTrip ==
    /\ last = "StreamDependency::encode" => IsDependencyWire(Written, dependency)
    /\ (last = "StreamDependency::load" /\ Len(Written) = 5) => result = Ok(dependency)

\* C3 happens: an exclusive dependency on the maximum id was encoded and read back
C3_Witness ==
    /\ last = "StreamDependency::load"
    /\ Len(Written) = 5
    /\ dependency # NoValue
    /\ dependency.is_exclusive
    /\ dependency.dependency_id = StreamIdMax
    /\ dependency.weight = 255
    /\ result.tag = "Ok"

\* the Priority in hand is one C4 speaks of
C4_Valid ==
    /\ IsPriority(priority)
    /\ priority.stream_id # 0
    /\ priority.stream_id # priority.dependency.dependency_id

\* C4: for a Priority with stream_id != 0 and stream_id != dependency_id,
\* encode writes 14 bytes: length 5, type 2, flags 0, the stream id, then the
\* 5-byte dependency; Priority::load of its head and the bytes after the
\* first 9 returns Ok of an equal Priority.
C4_PriorityRoundTrip ==
    C4_Valid =>
        /\ last = "Priority::encode" =>
              /\ Len(Written) = 14
              /\ SubSeq(Written, 1, 5) = <<0, 0, 5, 2, 0>>
              /\ Written[6] < 128
              /\ Low31(SubSeq(Written, 6, 9)) = priority.stream_id
              /\ IsDependencyWire(SubSeq(Written, 10, 14), priority.dependency)
        /\ (last = "Priority::load" /\ Len(Written) = 14) => result = Ok(priority)

\* C4 happens: a valid exclusive Priority was encoded and read back
C4_Witness ==
    /\ C4_Valid
    /\ last = "Priority::load"
    /\ Len(Written) = 14
    /\ priority.dependency.is_exclusive
    /\ priority.stream_id = StreamIdMax
    /\ result.tag = "Ok"

\* C5 as stated: Priority::new with stream id 0 aborts and yields no Priority
C5_Original ==
    (priority # NoValue /\ in_stream_id = 0) => priority = Panic

\* C5, amended: Priority::new performs no check; for every stream id, 0
\* included, it returns a Priority with that stream id and the dependency given.
C5_NewIsTotal ==
    priority # NoValue =>
        /\ priority # Panic
        /\ priority.stream_id = in_stream_id
        /\ priority.dependency = dependency

\* C5 happens: Priority::new was called with stream id 0
C5_Witness ==
    /\ last = "Priority::new"
    /\ in_stream_id = 0
    /\ IsPriority(priority)
    /\ priority.stream_id = 0

\* C6: every Priority obtained from Priority::new or Priority::load has
\* dependency.dependency_id != stream_id.
C6_NoSelfDependency ==
    /\ IsPriority(priority) => priority.dependency.dependency_id # priority.stream_id
    /\ (last = "Priority::load" /\ result.tag = "Ok")
          => result.value.dependency.dependency_id # result.value.stream_id

\* the pairs of a map other than x-client-profile, in order
OtherPairs(map) ==
    SelectSeq(HeaderMap_iter(map), LAMBDA pair : pair[1] # X_CLIENT_PROFILE)

\* C7: after AgentProfile::from(&mut H) the map holds no x-client-profile
\* entry and exactly the other entries of H, values and relative order kept;
\* a map without x-client-profile gives Chrome and is left unchanged.
C7_StripsOnlyProfileHeader ==
    last = "AgentProfile::from(headers)" =>
        /\ HeaderMap_iter(headers) = OtherPairs(headers_before)
        /\ HeaderMap_find(headers_before, X_CLIENT_PROFILE) = {}
              => (profile = "Chrome" /\ headers = headers_before)

\* C8: on every thread the slot holds what the thread's last completed
\* set_thread_local stored (None before the first), whatever other threads
\* do, and a completed get_thread_local returned exactly that.
C8_ThreadLocalSlot ==
    \A t \in Threads :
        /\ T[t] = last_set[t]
        /\ last_call[t] = "get" => ret[t] = last_set[t]

\* C8 happens: a thread read its own value after another thread stored a different one
C8_Witness ==
    \E t, u \in Threads :
        /\ t # u
        /\ last_call[t] = "get"
        /\ ret[t] = Some("Chrome")
        /\ last_call[u] = "set"
        /\ last_set[u] = Some("OkHttp")
        /\ last = "get_thread_local"

\* C9: AgentProfile::from(token) returns the profile of each of the five
\* tokens and Chrome for every other string; parsing the value of
\* p.to_header() gives p back.
C9_FromStrTotal ==
    /\ profile \in AgentProfiles
    /\ token # NoValue =>
          /\ token.value = "chrome"  => profile = "Chrome"
          /\ token.value = "firefox" => profile = "Firefox"
          /\ token.value = "safari"  => profile = "Safari"
          /\ token.value = "edge"    => profile = "Edge"
          /\ token.value = "okhttp"  => profile = "OkHttp"
          /\ token.value \notin {"chrome", "firefox", "safari", "edge", "okhttp"}
                => profile = "Chrome"
    /\ last = "AgentProfile::from(header)" =>
          /\ header[1] = "x-client-profile"
          /\ profile = header_of

\* C9 happens: Edge was rendered and parsed back
C9_Witness ==
    /\ last = "AgentProfile::from(header)"
    /\ header_of = "Edge"
    /\ token = Some("edge")

\* C10: the ordering depends only on the profile, is the one of the table,
\* holds each of the four pseudo-header kinds once, and starts with Method.
C10_PseudoOrder ==
    order # NoValue =>
        /\ order.of \in {"Chrome", "Edge"}
              => order.value = <<"Method", "Authority", "Scheme", "Path">>
        /\ order.of \in {"OkHttp", "Firefox"}
              => order.value = <<"Method", "Path", "Authority", "Scheme">>
        /\ order.of = "Safari"
              => order.value = <<"Method", "Scheme", "Path", "Authority">>
        /\ Len(order.value) = 4
        /\ {order.value[i] : i \in 1 .. 4} = {"Method", "Scheme", "Authority", "Path"}
        /\ order.value[1] = "Method"

\* C10 happens: the ordering of Firefox was asked for
C10_Witness ==
    /\ last = "AgentProfile::into"
    /\ order.of = "Firefox"

====
